---- MODULE Spec2Model ----
EXTENDS Integers, Sequences, FiniteSets, TLC

(***************************************************************************)
(* Symbolic variables of the solver: Int('cell_i_j') and                   *)
(* Int('associative_sum').  A variable is identified by its name only, so  *)
(* two calls that build cell_0_0 talk about the same solver variable.      *)
(***************************************************************************)
Cell(i, j) == <<"cell", i, j>>
associative_sum == <<"associative_sum", 0, 0>>


Row(n, i) == [k \in 1..n |-> Cell(i, k - 1)]

\* constraint records: one shape for every kind of assertion
Range(x, lo, hi) == [op |-> "range", lhs |-> <<x>>, rhs |-> <<>>, lo |-> lo, hi |-> hi]
SumEq(l, r)      == [op |-> "eq", lhs |-> l, rhs |-> r, lo |-> 0, hi |-> 0]
Given(x, g)      == [op |-> "given", lhs |-> <<x>>, rhs |-> <<>>, lo |-> g, hi |-> g]

\* the lower limit written as 0
constraints_from_zero(n) == {Range(Cell(i, j), 0, n * n) : i \in 0..(n-1), j \in 0..(n-1)}
constraints(n) == {Range(Cell(i, j), 1, n * n) : i \in 0..(n-1), j \in 0..(n-1)}
magic_constant(n) == Row(n, 0)
row_constraints(n) == {SumEq(Row(n, i), magic_constant(n)) : i \in 0..(n-1)}
\* square[i][j] summed instead of square[j][i]
column_constraints_as_rows(n) ==
    {SumEq([k \in 1..n |-> Cell(i, k - 1)], magic_constant(n)) : i \in 0..(n-1)}
column_constraints(n) ==
    {SumEq([k \in 1..n |-> Cell(k - 1, i)], magic_constant(n)) : i \in 0..(n-1)}
\* square[i][0] summed instead of square[i][i]
diagonal_constraints_first_column(n) ==
    {SumEq([k \in 1..n |-> Cell(k - 1, 0)], magic_constant(n)),
     SumEq([k \in 1..n |-> Cell(n - (k - 1) - 1, 0)], magic_constant(n))}
diagonal_constraints(n) ==
    {SumEq([k \in 1..n |-> Cell(k - 1, k - 1)], magic_constant(n)),
     SumEq([k \in 1..n |-> Cell(n - (k - 1) - 1, k - 1)], magic_constant(n))}
\* the last row indexed by i instead of grid_size-i-1
associative_row_constraints_same_column(n) ==
    {SumEq(<<Cell(0, i), Cell(n - 1, i)>>, <<associative_sum>>) : i \in 0..(n-1)}
associative_row_constraints(n) ==
    {SumEq(<<Cell(0, i), Cell(n - 1, n - i - 1)>>, <<associative_sum>>) : i \in 0..(n-1)}
associative_column_constraints(n) ==
    {SumEq(<<Cell(i, 0), Cell(n - i - 1, n - 1)>>, <<associative_sum>>) : i \in 1..(n-2)}
\* square[j][i] tied to incomplete_square[i][j]
incomplete_square_constraints_transposed(n, g) ==
    {Given(Cell(j, i), g[i + 1][j + 1]) : i \in 0..(n-1), j \in 0..(n-1)}
incomplete_square_constraints(n, g) ==
    {Given(Cell(i, j), g[i + 1][j + 1]) : i \in 0..(n-1), j \in 0..(n-1)}

Encode(n, g) ==
    constraints(n) \cup row_constraints(n) \cup column_constraints(n)
      \cup diagonal_constraints(n) \cup associative_row_constraints(n)
      \cup associative_column_constraints(n) \cup incomplete_square_constraints(n, g)

(***************************************************************************)
(* solver.check(): the assertion set is satisfiable iff some assignment of *)
(* integers to its variables makes every assertion true.                   *)
(***************************************************************************)
SeqSet(s) == {s[k] : k \in DOMAIN s}
VarsOf(c) == SeqSet(c.lhs) \cup SeqSet(c.rhs)
VarsIn(A) == UNION {VarsOf(c) : c \in A}

\* size of the largest square mentioned by A
SizeOf(A) == 1 + CHOOSE m \in 0..8 : /\ Cell(m, m) \in VarsIn(A)
                                     /\ Cell(m + 1, m + 1) \notin VarsIn(A)

\* every cell variable of A is confined by a range assertion, and a sum of
\* two cells cannot exceed twice the largest upper limit
MaxHi(A) == CHOOSE h \in {c.hi : c \in A} : \A c \in A : c.hi <= h
Universe(A) == 0..(2 * MaxHi(A) + 1)

\* the order in which the search assigns the variables
RECURSIVE RingOrder(_, _)
RingOrder(n, d) ==
    IF 2 * d >= n THEN <<>>
    ELSE LET lo == d
             hi == n - 1 - d
             top == [k \in 1..(2 * (hi - lo + 1)) |->
                        IF k % 2 = 1 THEN Cell(lo, lo + (k - 1) \div 2)
                                     ELSE Cell(hi, hi - (k - 2) \div 2)]
             side == [k \in 1..(2 * (hi - lo - 1)) |->
                        IF k % 2 = 1 THEN Cell(lo + 1 + (k - 1) \div 2, lo)
                                     ELSE Cell(hi - 1 - (k - 2) \div 2, hi)]
         IN  IF lo = hi THEN <<Cell(lo, lo)>>
             ELSE top \o side \o RingOrder(n, d + 1)

SearchOrder(A) ==
    LET n == SizeOf(A)
        r == RingOrder(n, 0)
        cut == IF n = 1 THEN 1 ELSE 2
    IN  SubSeq(r, 1, cut) \o <<associative_sum>> \o SubSeq(r, cut + 1, Len(r))

\* an assertion with its variables replaced by their positions in the order
Indexed(c, pos) == [op |-> c.op, lo |-> c.lo, hi |-> c.hi,
                    lhs |-> SubSeq([k \in DOMAIN c.lhs |-> pos[c.lhs[k]]], 1, Len(c.lhs)),
                    rhs |-> SubSeq([k \in DOMAIN c.rhs |-> pos[c.rhs[k]]], 1, Len(c.rhs))]

\* the set S, enumerated once
Enumerated(S) == CHOOSE T \in {S} : Cardinality(T) >= 0

RECURSIVE PosSum(_, _, _)
PosSum(ps, q, i) == IF i > Len(ps) THEN 0 ELSE q[ps[i]] + PosSum(ps, q, i + 1)

HoldsAt(c, q) ==
    CASE c.op = "range" -> c.lo <= q[c.lhs[1]] /\ q[c.lhs[1]] <= c.hi
      [] c.op = "given" -> IF c.lo # 0 THEN q[c.lhs[1]] = c.lo ELSE TRUE
      [] c.op = "eq"    -> PosSum(c.lhs, q, 1) = PosSum(c.rhs, q, 1)

\* coefficient of variable k in  Sum(lhs) - Sum(rhs)
Coef(c, k) == Cardinality({i \in DOMAIN c.lhs : c.lhs[i] = k})
                - Cardinality({i \in DOMAIN c.rhs : c.rhs[i] = k})

\* the values of variable k that extend the partial assignment p: when an
\* equality fixes the variable its value is computed, otherwise every value
\* of its domain is tried; either way all the assertions due are evaluated
Candidates(k, p, pl) ==
    LET q0 == Append(p, 0)
        try == IF pl.piv[k] = <<>> THEN pl.dom[k]
               ELSE LET c == pl.piv[k][1]
                        r == PosSum(c.rhs, q0, 1) - PosSum(c.lhs, q0, 1)
                        d == IF pl.piv[k][2] > 0 THEN r ELSE 0 - r
                        a == IF pl.piv[k][2] > 0 THEN pl.piv[k][2] ELSE 0 - pl.piv[k][2]
                    IN  IF d % a = 0 THEN {d \div a} \cap pl.dom[k] ELSE {}
    IN  {z \in try : LET q == Append(p, z) IN \A c \in pl.due[k] : HoldsAt(c, q)}

\* all complete assignments that extend p, which assigns variables 1..k-1
RECURSIVE Ext(_, _, _)
Ext(k, p, pl) ==
    IF k > Len(pl.dom) THEN {p}
    ELSE UNION {Ext(k + 1, Append(p, z), pl) : z \in Candidates(k, p, pl)}

Plan(A) ==
    LET ord == SearchOrder(A)
        N   == Len(ord)
        pos == [v \in SeqSet(ord) |-> CHOOSE k \in DOMAIN ord : ord[k] = v]
        U   == Universe(A)
        \* assertions that become decidable when variable k is assigned
        dueAt(k) == {Indexed(c, pos) : c \in
                       {d \in A : /\ ord[k] \in VarsOf(d)
                                  /\ \A v \in VarsOf(d) : pos[v] <= k}}
        all == SubSeq([k \in 1..N |-> Enumerated(dueAt(k))], 1, N)
        \* values of variable k allowed by the assertions on it alone
        dom == [k \in 1..N |-> Enumerated(
                  {y \in U : \A c \in {d \in all[k] : Len(d.lhs) + Len(d.rhs) = 1} :
                                 HoldsAt(c, [j \in 1..k |-> y])})]
        due == [k \in 1..N |-> Enumerated({d \in all[k] : Len(d.lhs) + Len(d.rhs) > 1})]
        \* an equality due at k in which k has a non-zero coefficient
        piv == [k \in 1..N |->
                  LET E == {d \in due[k] : d.op = "eq" /\ Coef(d, k) # 0}
                  IN  IF E = {} THEN <<>>
                      ELSE LET c == CHOOSE d \in E : TRUE
                           IN  <<c, Coef(c, k)>>]
    IN  [ord |-> ord, dom |-> SubSeq(dom, 1, N), due |-> SubSeq(due, 1, N), piv |-> SubSeq(piv, 1, N)]

\* solver.model(): the assignments of the variables of A that satisfy A
Models(A) ==
    UNION {{[v \in SeqSet(pl.ord) |-> p[CHOOSE k \in DOMAIN pl.ord : pl.ord[k] = v]] :
               p \in Ext(1, <<>>, pl)} : pl \in {Plan(A)}}


(***************************************************************************)
(* Input grids.  A grid is a sequence of n rows of n integers, 0 = unknown.*)
(***************************************************************************)
MaxCells == 9
MaxGiven == 1
MaxCalls == 2
MaxSessionCells == 4

Zero(n) == [i \in 1..n |-> [j \in 1..n |-> 0]]

\* the grids of size n with at most k given cells
RECURSIVE WithGivens(_, _)
WithGivens(n, k) ==
    IF k = 0 THEN {Zero(n)}
    ELSE LET S == WithGivens(n, k - 1)
         IN  S \cup {[g EXCEPT ![i][j] = v] : g \in S, i \in 1..n, j \in 1..n, v \in 1..(n * n)}

\* the hard-coded invocation
Example == <<<<0, 0, 1, 0>>, <<0, 5, 0, 0>>, <<0, 0, 0, 0>>, <<0, 0, 0, 6>>>>
\* the output recorded in the module docstring
Documented == <<<<5, 6, 1, 10>>, <<6, 5, 10, 1>>, <<10, 1, 6, 5>>, <<1, 10, 5, 6>>>>
\* given cells that force contradictory row sums under the range bound
Contradictory == <<<<9, 9, 0>>, <<1, 1, 0>>, <<0, 0, 0>>>>
\* a complete 4x4 square with equal row, column and diagonal sums whose
\* first and last rows are not paired
Unpaired == <<<<1, 1, 3, 3>>, <<2, 3, 1, 2>>, <<2, 1, 3, 2>>, <<3, 3, 1, 1>>>>
\* a complete 6x6 square that meets every asserted constraint
Interior6 == [i \in 1..6 |-> [j \in 1..6 |->
                 IF <<i, j>> \in {<<2, 3>>, <<5, 4>>} THEN 11
                 ELSE IF <<i, j>> \in {<<2, 4>>, <<5, 3>>} THEN 9 ELSE 10]]

\* two different values given in a 2x2 square
Clash == <<<<1, 2>>, <<0, 0>>>>

Inputs ==
    UNION {{<<n, g>> : g \in WithGivens(n, MaxGiven)} : n \in {m \in 1..MaxCells : m * m <= MaxCells}}
      \cup {<<4, Example>>, <<2, Clash>>, <<3, Contradictory>>, <<4, Unpaired>>, <<6, Interior6>>}
SessionInputs == {c \in Inputs : c[1] * c[1] <= MaxSessionCells}

None == <<>>
NoRun == [n |-> 0, g |-> <<>>, result |-> None, fresh |-> FALSE]

VARIABLES solver, grid_size, incomplete_square, magic_square_solution,
          output, pc, calls, fresh, previous

vars == <<solver, grid_size, incomplete_square, magic_square_solution,
          output, pc, calls, fresh, previous>>

Start(S) ==
    /\ solver = {}
    /\ \E c \in S : grid_size = c[1] /\ incomplete_square = c[2]
    /\ magic_square_solution = None
    /\ output = <<>>
    /\ pc = "start"
    /\ calls = 0
    /\ fresh = FALSE
    /\ previous = NoRun

Init == Start(Inputs)
InitSession == Start(SessionInputs)

\* complete_magic_square without its return statement
Call_without_return ==
    /\ pc = "start"
    /\ solver' = solver \cup Encode(grid_size, incomplete_square)
    /\ \E S \in {Models(solver')} :
          /\ magic_square_solution' = None
          /\ output' = IF S # {} THEN output \o <<"Satisfiability: sat", "SMT-LIB2 format">>
                       ELSE output
    /\ fresh' = (solver = {})
    /\ calls' = calls + 1
    /\ pc' = "report"
    /\ UNCHANGED <<grid_size, incomplete_square, previous>>

\* complete_magic_square(grid_size, incomplete_square)
Call ==
    /\ pc = "start"
    /\ solver' = solver \cup Encode(grid_size, incomplete_square)
    /\ \E S \in {Models(solver')} :
          IF S # {}
          THEN \E model \in S :
                 /\ magic_square_solution' =
                      [i \in 1..grid_size |-> [j \in 1..grid_size |-> model[Cell(i - 1, j - 1)]]]
                 /\ output' = output \o <<"Satisfiability: sat", "SMT-LIB2 format">>
          ELSE /\ magic_square_solution' = None
               /\ output' = output
    /\ fresh' = (solver = {})
    /\ calls' = calls + 1
    /\ pc' = "report"
    /\ UNCHANGED <<grid_size, incomplete_square, previous>>

\* the module-level reporting of the result
Report ==
    /\ pc = "report"
    /\ output' = IF magic_square_solution # <<>>
                 THEN output \o <<"Magic Square">> \o [i \in 1..Len(magic_square_solution) |-> "row"]
                 ELSE output \o <<"No solution found">>
    /\ pc' = "done"
    /\ UNCHANGED <<solver, grid_size, incomplete_square, magic_square_solution, calls, fresh, previous>>

\* the same process calls complete_magic_square once more, with other arguments
CallAgain(n, g) ==
    /\ pc = "done"
    /\ calls < MaxCalls
    /\ grid_size' = n
    /\ incomplete_square' = g
    /\ pc' = "start"
    /\ UNCHANGED <<solver, magic_square_solution, output, calls, fresh, previous>>

\* the script is run again: a new process with a new Solver()
Restart(n, g) ==
    /\ pc = "done"
    /\ calls < MaxCalls
    /\ previous' = [n |-> grid_size, g |-> incomplete_square,
                    result |-> magic_square_solution, fresh |-> fresh]
    /\ solver' = {}
    /\ grid_size' = n
    /\ incomplete_square' = g
    /\ magic_square_solution' = None
    /\ output' = <<>>
    /\ fresh' = FALSE
    /\ pc' = "start"
    /\ UNCHANGED calls

Next == Call \/ Report
Spec == Init /\ [][Next]_vars

NextSession ==
    \/ Call
    \/ Report
    \/ \E c \in SessionInputs : CallAgain(c[1], c[2])
    \/ \E c \in SessionInputs : Restart(c[1], c[2])
SpecSession == InitSession /\ [][NextSession]_vars

(***************************************************************************)
(* Properties of a returned grid, stated on the grid itself.               *)
(***************************************************************************)
RECURSIVE SumSeq(_)
SumSeq(r) == IF r = <<>> THEN 0 ELSE Head(r) + SumSeq(Tail(r))

RowSum(sq, i) == SumSeq(sq[i])
ColSum(sq, j) == SumSeq([i \in 1..Len(sq) |-> sq[i][j]])
DiagSum(sq) == SumSeq([i \in 1..Len(sq) |-> sq[i][i]])
AntiSum(sq) == SumSeq([i \in 1..Len(sq) |-> sq[Len(sq) + 1 - i][i]])

Finished == pc \in {"report", "done"}
Returned == Finished /\ magic_square_solution # None

\* sq is a completion of g: it keeps the given cells and meets the range,
\* row, column, diagonal and associative constraints
IsCompletion(sq, n, g) ==
    /\ Len(sq) = n
    /\ \A i, j \in 1..n : sq[i][j] \in 1..(n * n)
    /\ \A i \in 1..n : RowSum(sq, i) = RowSum(sq, 1) /\ ColSum(sq, i) = RowSum(sq, 1)
    /\ DiagSum(sq) = RowSum(sq, 1)
    /\ AntiSum(sq) = RowSum(sq, 1)
    /\ \A i \in 1..n : sq[1][i] + sq[n][n + 1 - i] = sq[1][1] + sq[n][n]
    /\ \A i \in 2..(n - 1) : sq[i][1] + sq[n + 1 - i][n] = sq[1][1] + sq[n][n]
    /\ \A i, j \in 1..n : g[i][j] # 0 => sq[i][j] = g[i][j]

\* grids against which "no completion exists" is tested: every grid up to
\* size 2, every 3x3 grid with equal row, column and diagonal sums, and for
\* larger sizes the constant grids, the input itself and the documented output
Reference(n, g) ==
    IF n <= 2 THEN [1..n -> [1..n -> 1..(n * n)]]
    ELSE IF n = 3
    THEN {<<<<c + a, c - a - b, c + b>>, <<c - a + b, c, c + a - b>>, <<c - b, c + a + b, c - a>>>> :
             c \in 1..9, a \in -8..8, b \in -8..8}
    ELSE {[i \in 1..n |-> [j \in 1..n |-> v]] : v \in 1..(n * n)} \cup {g}
           \cup {d \in {Documented} : Len(d) = n}

HasCompletion(n, g) == \E sq \in Reference(n, g) : IsCompletion(sq, n, g)

\* C1: whenever a grid is returned, every position whose input entry is
\* non-zero holds exactly that input value in the returned grid.
C1_GivenCellsPreserved ==
    Returned => \A i, j \in 1..grid_size :
                   incomplete_square[i][j] # 0 =>
                       magic_square_solution[i][j] = incomplete_square[i][j]

C1_Witness ==
    /\ Returned
    /\ grid_size = 3
    /\ \E i, j \in 1..grid_size : incomplete_square[i][j] # 0
    /\ \E i, j \in 1..grid_size :
          incomplete_square[i][j] = 0 /\ magic_square_solution[i][j] # magic_square_solution[1][1]

\* C2: in every returned grid the sum of every row, of every column, of the
\* main diagonal and of the anti-diagonal equals the sum of row 0.
C2_SumsEqual ==
    Returned => /\ \A i \in 1..grid_size :
                      /\ RowSum(magic_square_solution, i) = RowSum(magic_square_solution, 1)
                      /\ ColSum(magic_square_solution, i) = RowSum(magic_square_solution, 1)
                /\ DiagSum(magic_square_solution) = RowSum(magic_square_solution, 1)
                /\ AntiSum(magic_square_solution) = RowSum(magic_square_solution, 1)

C2_Witness ==
    /\ Returned
    /\ grid_size = 4
    /\ magic_square_solution[1][1] # magic_square_solution[1][2]
    /\ RowSum(magic_square_solution, 1) = 22

\* C3: every cell of every returned grid lies in 1..grid_size^2, also the
\* cells that were 0 in the input.
C3_RangeBound ==
    Returned => \A i, j \in 1..grid_size :
                   magic_square_solution[i][j] \in 1..(grid_size * grid_size)

C3_Witness ==
    /\ Returned
    /\ \E i, j \in 1..grid_size :
          incomplete_square[i][j] = 0 /\ magic_square_solution[i][j] = grid_size * grid_size
    /\ \E i, j \in 1..grid_size :
          incomplete_square[i][j] = 0 /\ magic_square_solution[i][j] = 1

\* C4: in every returned grid cell(0,i) + cell(n-1, n-1-i) is the same
\* constant for every i.
C4_FirstLastRowPaired ==
    Returned => \A i \in 1..grid_size :
                   magic_square_solution[1][i] + magic_square_solution[grid_size][grid_size + 1 - i]
                     = magic_square_solution[1][1] + magic_square_solution[grid_size][grid_size]

C4_Witness ==
    /\ Returned
    /\ grid_size >= 3
    /\ \E i \in 1..grid_size : magic_square_solution[1][i] # magic_square_solution[1][1]
    /\ \E i \in 1..grid_size :
          magic_square_solution[grid_size][i] # magic_square_solution[grid_size][1]

\* C5: on a first call the result is None exactly when the given cells have
\* no completion, a returned grid is a completion, and after None the
\* caller prints only the 'No solution found' message.
C5_NoneIffUnsatisfiable ==
    (Finished /\ fresh) =>
        /\ magic_square_solution = None => ~HasCompletion(grid_size, incomplete_square)
        /\ magic_square_solution # None =>
              IsCompletion(magic_square_solution, grid_size, incomplete_square)
        /\ (pc = "done" /\ magic_square_solution = None) => output = <<"No solution found">>
        /\ (pc = "done" /\ magic_square_solution # None) =>
              output[Len(output)] # "No solution found"

C5_Witness ==
    /\ pc = "done"
    /\ fresh
    /\ magic_square_solution = None
    /\ incomplete_square = Contradictory
    /\ output = <<"No solution found">>

\* C6: for grid_size = 4 and the hard-coded input the call returns a grid
\* with cell(0,2) = 1, cell(1,1) = 5, cell(3,3) = 6 whose four row sums
\* equal each other and both diagonal sums, and the documented output is a
\* grid that satisfies every asserted constraint.
C6_ConcreteScenario ==
    /\ IsCompletion(Documented, 4, Example)
    /\ (Finished /\ grid_size = 4 /\ incomplete_square = Example) =>
          /\ magic_square_solution # None
          /\ Len(magic_square_solution) = 4
          /\ magic_square_solution[1][3] = 1
          /\ magic_square_solution[2][2] = 5
          /\ magic_square_solution[4][4] = 6
          /\ \A i \in 1..4 : RowSum(magic_square_solution, i) = RowSum(magic_square_solution, 1)
          /\ DiagSum(magic_square_solution) = RowSum(magic_square_solution, 1)
          /\ AntiSum(magic_square_solution) = RowSum(magic_square_solution, 1)

C6_Witness ==
    /\ pc = "done"
    /\ grid_size = 4
    /\ incomplete_square = Example
    /\ magic_square_solution = Documented

\* C7: two solves of the same input, each from a solver with no earlier
\* assertions, return grids with the same magic constant.
C7_SameMagicConstant ==
    (/\ Returned
     /\ fresh
     /\ previous.fresh
     /\ previous.result # None
     /\ previous.n = grid_size
     /\ previous.g = incomplete_square)
        => RowSum(magic_square_solution, 1) = RowSum(previous.result, 1)

\* C8: the grid_size^2 values of every returned grid are pairwise distinct.
C8_CellsDistinct ==
    Returned => \A i, j, k, l \in 1..grid_size :
                   <<i, j>> # <<k, l>> => magic_square_solution[i][j] # magic_square_solution[k][l]

\* C9: the outcome of a call depends only on that call's arguments: a call
\* whose input admits a completion returns a grid, whatever was asserted in
\* the solver by earlier calls.
C9_NoSideEffects ==
    (Finished /\ HasCompletion(grid_size, incomplete_square)) => magic_square_solution # None

\* C10: for grid_size >= 3 every returned grid is fully associative:
\* cell(i,j) + cell(n-1-i, n-1-j) is the same constant for every (i,j).
C10_FullyAssociative ==
    (Returned /\ grid_size >= 3) =>
        \A i, j \in 1..grid_size :
            magic_square_solution[i][j] + magic_square_solution[grid_size + 1 - i][grid_size + 1 - j]
              = magic_square_solution[1][1] + magic_square_solution[grid_size][grid_size]

====
